---- MODULE Spec2Model ----
(***************************************************************************)
(* Model of manage.py, command extract_indices_mapping: the extraction of  *)
(* the Business Term / form index mapping from the sheets of the mapping   *)
(* workbooks (specification Spec), and command extract_hierarchy: the      *)
(* extraction of the hierarchy of Business Groups and Business Terms from  *)
(* the rows of the annex (specification SpecHierarchy).                    *)
(*                                                                         *)
(* Strings are sequences of tokens.  A token stands for a run of           *)
(* characters that the code never looks into ("I" is level text not        *)
(* starting with B, "B" is the letter B at the start of a level, "and" is  *)
(* one of the continuation words of replace_newlines); NL is the newline   *)
(* character.  A cell of a data frame is a string, a list of strings       *)
(* (after the split of line 236) or the missing value NaN.                 *)
(*                                                                         *)
(* The loop over df.iterrows() assigns to `row`.  The code relies on these *)
(* assignments reaching the data frame (the frame is one block of object   *)
(* dtype after fillna('')), which is how its output gets exploded; the     *)
(* model writes them to df.                                                *)
(***************************************************************************)
EXTENDS Integers, Sequences, FiniteSets, TLC

NL == "\n"
SP == " "
\* The missing value of pandas (NaN), for a string cell and for a scalar.
NaN == <<"NaN">>
NaNAtom == "NaN"

----------------------------------------------------------------------------
(* Bounds of the explored inputs. *)

\* Longest Level cell, in tokens, of the rows drawn for a single-row sheet.
MaxLevelLen == 3
\* Longest Element cell, in tokens, of the rows drawn for a single-row sheet.
MaxElemLen == 3
\* Largest corpus of several sheets: its number of sheets plus data rows.
MaxCorpusSize == 5
\* Most notice numbers after the first in the notice list of a sheet name.
MaxMoreNotices == 1
\* Most rows of the annex.
MaxAnnexRows == 4
\* Longest Level of a row of the annex: the deepest place in the hierarchy.
MaxDepth == 4

----------------------------------------------------------------------------
(* Python string and list operations. *)

At(s, i) == IF i \in 1..Len(s) THEN s[i] ELSE ""

Drop(s, k) == SubSeq(s, k + 1, Len(s))

\* str.replace('\n\n', '\n'): one left-to-right pass over non-overlapping
\* occurrences.
RECURSIVE ReplaceDoubleNewline(_)
ReplaceDoubleNewline(s) ==
    IF Len(s) = 0 THEN <<>>
    ELSE IF Len(s) >= 2 /\ s[1] = NL /\ s[2] = NL
         THEN <<NL>> \o ReplaceDoubleNewline(Drop(s, 2))
         ELSE <<s[1]>> \o ReplaceDoubleNewline(Drop(s, 1))

\* str.lstrip(c) and str.strip(c) for a one-character set.
RECURSIVE LStrip(_, _)
LStrip(s, c) == IF Len(s) > 0 /\ s[1] = c THEN LStrip(Drop(s, 1), c) ELSE s

RECURSIVE RStrip(_, _)
RStrip(s, c) ==
    IF Len(s) > 0 /\ s[Len(s)] = c THEN RStrip(SubSeq(s, 1, Len(s) - 1), c) ELSE s

Strip(s, c) == RStrip(LStrip(s, c), c)

\* str.split(sep): the pieces between the separators; ''.split(sep) is [''].
RECURSIVE SplitFrom(_, _, _)
SplitFrom(s, sep, cur) ==
    IF Len(s) = 0 THEN <<cur>>
    ELSE IF s[1] = sep THEN <<cur>> \o SplitFrom(Drop(s, 1), sep, <<>>)
         ELSE SplitFrom(Drop(s, 1), sep, Append(cur, s[1]))

Split(s, sep) == SplitFrom(s, sep, <<>>)

\* str.startswith('B').
StartsWithB(s) == Len(s) > 0 /\ s[1] = "B"

\* list * n: the whole list n times over.
RECURSIVE ListTimes(_, _)
ListTimes(l, n) == IF n <= 0 THEN <<>> ELSE l \o ListTimes(l, n - 1)

RECURSIVE Concat(_)
Concat(ss) == IF Len(ss) = 0 THEN <<>> ELSE ss[1] \o Concat(Drop(ss, 1))

----------------------------------------------------------------------------
(* The regular expression replace_newlines, line 138:                      *)
(*   \n(?=\(|(2009|Title III|and|requirements|subcontractor|will)\b)       *)

Keywords == {"2009", "Title III", "and", "requirements", "subcontractor", "will"}

\* Tokens that do not begin with a word character; the end of the string
\* (At gives "") is no word character either.
NonWordTokens == {NL, SP, "(", ""}

\* The regular expression matches the newline at position i.
SoftBreakAt(s, i) ==
    /\ At(s, i) = NL
    /\ \/ At(s, i + 1) = "("
       \/ /\ At(s, i + 1) \in Keywords
          /\ At(s, i + 2) \in NonWordTokens

\* replace_newlines.search(s)
SearchSoftBreak(s) == \E i \in 1..Len(s) : SoftBreakAt(s, i)

\* replace_newlines.sub(' ', s)
SubSoftBreak(s) == [i \in 1..Len(s) |-> IF SoftBreakAt(s, i) THEN SP ELSE s[i]]

----------------------------------------------------------------------------
(* Sheet names and their classification, lines 125-136 and 147-155.        *)
(* A sheet name is a sequence of tokens: a digit, a punctuation character, *)
(* a space, or a run of letters.                                           *)

Digits == {"0", "1", "2", "3", "4", "5", "6", "7", "8", "9"}

IsDigit(t) == t \in Digits

ignore_sheets ==
    { <<"Annex table 2">>,
      <<"eN", "4", "0", SP, "vs", SP, "F", "2", "0">>,
      <<"Legend">>,
      <<"Legend Annex table 2">>,
      <<"S.F. vs eForms mapping list ">> }

\* ^F\d\d vs eN\d\d( \(2\))?$
IgnoreRegex1(n) ==
    /\ At(n, 1) = "F" /\ IsDigit(At(n, 2)) /\ IsDigit(At(n, 3))
    /\ At(n, 4) = SP /\ At(n, 5) = "vs" /\ At(n, 6) = SP
    /\ At(n, 7) = "eN" /\ IsDigit(At(n, 8)) /\ IsDigit(At(n, 9))
    /\ \/ Len(n) = 9
       \/ Len(n) = 11 /\ n[10] = SP /\ n[11] = "(2)"

\* The end of the longest run of ",\d\d" groups that starts at position p.
RECURSIVE SkipGroups(_, _)
SkipGroups(n, p) ==
    IF At(n, p) = "," /\ IsDigit(At(n, p + 1)) /\ IsDigit(At(n, p + 2))
    THEN SkipGroups(n, p + 3)
    ELSE p

\* ^SF\d\d vs eForm ?\d\d(,\d\d)*$
IgnoreRegex2(n) ==
    /\ At(n, 1) = "S" /\ At(n, 2) = "F" /\ IsDigit(At(n, 3)) /\ IsDigit(At(n, 4))
    /\ At(n, 5) = SP /\ At(n, 6) = "vs" /\ At(n, 7) = SP /\ At(n, 8) = "eForm"
    /\ LET p == IF At(n, 9) = SP THEN 10 ELSE 9
       IN  /\ IsDigit(At(n, p)) /\ IsDigit(At(n, p + 1))
           /\ SkipGroups(n, p + 2) = Len(n) + 1

\* IsIgnored, had the keep pattern been tried before the exact names.
IsIgnoredByPatternOnly(n) == IgnoreRegex1(n) \/ IgnoreRegex2(n)

\* Line 147: the sheet is skipped.
IsIgnored(n) == n \in ignore_sheets \/ IgnoreRegex1(n) \/ IgnoreRegex2(n)

\* keep_sheet_regex, ^(?:eForm|eN) ?(\d\d?(?:,\d\d)*) vs S?F(\d\d) ?$ :
\* whether it matches, and its two groups.
keep_sheet_regex(n) ==
    LET p1 == IF At(n, 2) = SP THEN 3 ELSE 2
        p2 == SkipGroups(n, IF IsDigit(At(n, p1 + 1)) THEN p1 + 2 ELSE p1 + 1)
        p3 == IF At(n, p2 + 3) = "S" THEN p2 + 4 ELSE p2 + 3
        ok == /\ At(n, 1) \in {"eForm", "eN"}
              /\ IsDigit(At(n, p1))
              /\ At(n, p2) = SP /\ At(n, p2 + 1) = "vs" /\ At(n, p2 + 2) = SP
              /\ At(n, p3) = "F"
              /\ IsDigit(At(n, p3 + 1)) /\ IsDigit(At(n, p3 + 2))
              /\ \/ Len(n) = p3 + 2
                 \/ Len(n) = p3 + 3 /\ n[p3 + 3] = SP
    IN  [ok |-> ok,
         group1 |-> IF ok THEN SubSeq(n, p1, p2 - 1) ELSE <<>>,
         group2 |-> IF ok THEN SubSeq(n, p3 + 1, p3 + 2) ELSE <<>>]

\* Line 155: match.group(2).lstrip('0')
SfNoticeNumber(n) == LStrip(keep_sheet_regex(n).group2, "0")

\* Line 177: [number.lstrip('0') for number in eforms_notice_number.split(',')]
EformsNotices(group1) ==
    LET parts == Split(group1, ",")
    IN  [i \in 1..Len(parts) |-> LStrip(parts[i], "0")]

----------------------------------------------------------------------------
(* The input: the sheets of the archive, in the order excel_files() and    *)
(* xlsx.sheet_names give them.  A sheet is its name and its data rows as   *)
(* read_excel returns them (title row skipped, empty and '---' cells NaN); *)
(* of a row, the columns the code reads: column 0, ID, Name, column 8      *)
(* (Level) and Element.                                                    *)

RawRow(empty, id, name, level, element) ==
    [Empty |-> empty, ID |-> id, Name |-> name, Level |-> level, Element |-> element]

\* All strings over an alphabet, of 1 to n tokens.
StringsUpTo(alphabet, n) == UNION {[1..k -> alphabet] : k \in 1..n}

\* The Level and Element of the two hard-coded corrections, lines 209-226.
Fp1Level == <<"I.3.4.1.1">>
Fp1NewLevel == <<"I.3.4.1.1", NL, "I.3.4.1.2">>
Fp2Level ==
    <<"III.2.1.1.1", NL, "III.2.2.2", NL, "III.2.2.3", NL, "III.2.3.1.1", NL, "III.2.3.1.2">>
InfoLine == "Information and formalities necessary for evaluating if the requirements are met:"
MinLine == "Minimum level(s) of standards possibly required: (if applicable)"
Fp2NewElement ==
    <<InfoLine, NL, InfoLine, NL, MinLine, NL, InfoLine, NL, MinLine, NL>>

LevelStrings ==
    StringsUpTo({"I", "B", NL}, MaxLevelLen) \cup {<<"I", NL, "J">>, <<"I", NL, "J", NL, "K">>, <<"I", NL, NL, "J">>,
          Fp1Level, Fp2Level}

ElementStrings ==
    StringsUpTo({"x", "and", NL}, MaxElemLen) \cup {<<"x", NL, "(">>, <<"(", NL, "x">>}

Name1 == <<SP, "name", SP>>

\* Sheets of one data row, with the names the two corrections look for.
Sheet15v7 == <<"eForm", "1", "5", SP, "vs", SP, "S", "F", "0", "7">>
Sheet18v17 == <<"eN", "1", "8", SP, "vs", SP, "F", "1", "7">>

RowSheets ==
    { [name |-> n, rows |-> <<RawRow(NaNAtom, id, Name1, l, e)>>] :
        n \in {Sheet15v7, Sheet18v17}, id \in {"BT-18", "BT-750"},
        l \in LevelStrings, e \in ElementStrings \cup {NaN} }

\* Sheets of several rows, of a few kinds of row: a plain mapping of two
\* levels, a note in column 0 with no mapping, a mapping without ID, a
\* mapping with more elements than levels, a mapping with column 0 filled.
SheetMulti == <<"eForm", "1", "5", ",", "1", "8", SP, "vs", SP, "S", "F", "0", "7">>
SheetLegend == <<"Legend">>
SheetIgnoredKeep == <<"eN", "4", "0", SP, "vs", SP, "F", "2", "0">>
SheetRandom == <<"Random Sheet">>

FewRows ==
    { RawRow(NaNAtom, "BT-1", Name1, <<"I", NL, "J">>, <<"x", NL, "y">>),
      RawRow("note", NaNAtom, NaN, NaN, NaN),
      RawRow(NaNAtom, NaNAtom, NaN, <<"I">>, <<"x">>),
      RawRow(NaNAtom, "BT-2", Name1, <<"I", NL, "J">>, <<"x", NL, "y", NL, "z">>),
      RawRow("note", "BT-3", Name1, <<"I">>, NaN) }

RECURSIVE TablesOfLen(_)
TablesOfLen(k) ==
    IF k = 0 THEN {<<>>}
    ELSE {Append(t, r) : t \in TablesOfLen(k - 1), r \in FewRows}

\* The sheets whose size (1 for the sheet, 1 for each data row) is w.  The
\* table of an ignored or rejected sheet is never read.
SheetsOfSize(w) ==
    {[name |-> SheetMulti, rows |-> t] : t \in TablesOfLen(w - 1)}
    \cup (IF w = 1
          THEN {[name |-> n, rows |-> <<>>] : n \in {SheetLegend, SheetIgnoredKeep, SheetRandom}}
          ELSE {})

\* The sheets of size at most w, each with its size.
SizedSheets(w) == UNION {{[size |-> k, sheet |-> sh] : sh \in SheetsOfSize(k)} : k \in 1..w}

\* The archives of total size at most w.
RECURSIVE CorporaUpTo(_)
CorporaUpTo(w) ==
    {<<>>} \cup UNION { { <<ss.sheet>> \o c : c \in CorporaUpTo(w - ss.size) } :
                          ss \in SizedSheets(w) }

\* Sheet names made the way the patterns read them: a form kind, a list of
\* notice numbers, " vs ", a form kind and a number, with the optional
\* spaces; numbers over two digits only, 0 among them.
NameDigits == {"0", "1"}

TwoDigits == [1..2 -> NameDigits]

\* The runs of at most k groups of a comma and a two-digit number.
RECURSIVE MoreNotices(_)
MoreNotices(k) ==
    IF k = 0 THEN {<<>>}
    ELSE MoreNotices(k - 1)
         \cup {g \o <<",">> \o d : g \in MoreNotices(k - 1), d \in TwoDigits}

NoticeLists ==
    {first \o more : first \in [1..1 -> NameDigits] \cup TwoDigits,
                      more \in MoreNotices(MaxMoreNotices)}

KeepNames ==
    {kind \o list \o <<SP, "vs", SP>> \o old \o d \o trail :
        kind \in {<<"eForm">>, <<"eN">>, <<"eN", SP>>},
        list \in NoticeLists,
        old \in {<<"S", "F">>, <<"F">>},
        d \in TwoDigits,
        trail \in {<<>>, <<SP>>}}

\* Names of the ignore patterns, and names close to the keep pattern.
OtherNames ==
    { <<"F", "0", "2", SP, "vs", SP, "eN", "1", "6">>,
      <<"F", "0", "2", SP, "vs", SP, "eN", "1", "6", SP, "(2)">>,
      <<"S", "F", "0", "2", SP, "vs", SP, "eForm", "1", "6", ",", "2", "9">>,
      <<"S", "F", "0", "2", SP, "vs", SP, "eForm", SP, "1", "6">>,
      <<"eForm", "1", "2", "3", SP, "vs", SP, "S", "F", "0", "7">>,
      <<"eForm", "1", "5", ",", "8", SP, "vs", SP, "S", "F", "0", "7">>,
      <<"eForm", "1", "5", SP, "vs", SP, "S", "F", "7">>,
      <<"eForm", "1", "5", SP, "vs", SP, "F", "F", "0", "7">>,
      <<"Form", "1", "5", SP, "vs", SP, "S", "F", "0", "7">>,
      <<"F", "0", "2", SP, "vs", SP, "eN", "1", "6", SP, "(3)">> }

\* Sheets of one plain row under each of these names and the ignored ones.
PlainRow == RawRow(NaNAtom, "BT-1", Name1, <<"I">>, <<"x">>)

NameSheets ==
    { [name |-> n, rows |-> <<PlainRow>>] :
        n \in KeepNames \cup OtherNames \cup ignore_sheets }

Corpora ==
    CorporaUpTo(MaxCorpusSize)
    \cup {<<sh>> : sh \in RowSheets}
    \cup {<<sh>> : sh \in NameSheets}
    \cup {<<ig, sh>> : ig \in {s \in NameSheets : s.name \in OtherNames \cup ignore_sheets},
                       sh \in {[name |-> SheetMulti, rows |-> <<PlainRow>>]}}

----------------------------------------------------------------------------
(* Cells and frames. *)

\* A Level or Element cell of the frame: a string, or a list of strings.
StrCell(s) == [list |-> FALSE, str |-> s, items |-> <<>>]
ListCell(l) == [list |-> TRUE, str |-> <<>>, items |-> l]

\* Line 184, df.fillna('') on one cell.
FillNa(v) == IF v = NaN THEN <<>> ELSE v
FillNaAtom(v) == IF v = NaNAtom THEN "" ELSE v

\* Line 181, str.strip() of a Name (NaN stays NaN).
StripName(v) == IF v = NaN THEN NaN ELSE Strip(v, SP)

\* NotNaFrom, had line 168 also removed the rows without ID.
RECURSIVE NotNaLevelAndIdFrom(_, _)
NotNaLevelAndIdFrom(t, i) ==
    IF i > Len(t) THEN <<>>
    ELSE (IF t[i].Level # NaN /\ t[i].ID # NaNAtom THEN <<i>> ELSE <<>>)
         \o NotNaLevelAndIdFrom(t, i + 1)

\* Line 168: the labels of the rows whose Level is not NaN, from label i on.
RECURSIVE NotNaFrom(_, _)
NotNaFrom(t, i) ==
    IF i > Len(t) THEN <<>>
    ELSE (IF t[i].Level # NaN THEN <<i>> ELSE <<>>) \o NotNaFrom(t, i + 1)

LevelNotNa(t) == NotNaFrom(t, 1)

\* EmptyColumnIsNa, had column 0 been tested before line 168 removed rows.
EmptyColumnIsNaAllRows(t) == \A i \in 1..Len(t) : t[i].Empty = NaNAtom

\* Line 171: df['Empty'].isna().all(), over the rows that line 168 kept.
EmptyColumnIsNa(t) == \A j \in 1..Len(LevelNotNa(t)) : t[LevelNotNa(t)[j]].Empty = NaNAtom

\* Lines 168-184: the frame of an accepted sheet as the loop of line 191
\* finds it.  idx is the row's index label, its position in the sheet.
Normalize(t, group1, sf) ==
    LET kept == LevelNotNa(t)
    IN  [j \in 1..Len(kept) |->
            [idx |-> kept[j],
             ID |-> FillNaAtom(t[kept[j]].ID),
             Name |-> FillNa(StripName(t[kept[j]].Name)),
             Level |-> StrCell(FillNa(t[kept[j]].Level)),
             Element |-> StrCell(FillNa(t[kept[j]].Element)),
             eformsNotice |-> EformsNotices(group1),
             sfNotice |-> sf]]

----------------------------------------------------------------------------
(* The body of the loop over the rows, lines 192-249. *)

Contains(s, c) == \E i \in 1..Len(s) : s[i] = c

\* Lines 195-202: the Element without its spurious newlines.
CleanElement(e) ==
    LET e1 == ReplaceDoubleNewline(e)
    IN  IF SearchSoftBreak(e1) THEN SubSoftBreak(e1) ELSE e1

\* Lines 205-211 and 213-219: the conditions of the two corrections.
\* Matches1 without the test of the Element line count.
Matches1AnyLineCount(group1, sf, id, level, element) ==
    /\ group1 = <<"1", "5">>
    /\ sf = <<"7">>
    /\ id = "BT-18"
    /\ level = Fp1Level

Matches1(group1, sf, id, level, element) ==
    /\ group1 = <<"1", "5">>
    /\ sf = <<"7">>
    /\ id = "BT-18"
    /\ level = Fp1Level
    /\ Len(Split(element, NL)) = 2

\* Matches2 without the test of the ID.
Matches2AnyId(group1, sf, id, level, element) ==
    /\ group1 = <<"1", "8">>
    /\ sf = <<"1", "7">>
    /\ level = Fp2Level
    /\ Len(Split(element, NL)) = 2

Matches2(group1, sf, id, level, element) ==
    /\ group1 = <<"1", "8">>
    /\ sf = <<"1", "7">>
    /\ id = "BT-750"
    /\ level = Fp2Level
    /\ Len(Split(element, NL)) = 2

\* Lines 205-226: the Level and the Element after the corrections.
PatchLevel(group1, sf, id, level, element) ==
    IF Matches1(group1, sf, id, level, element) THEN Fp1NewLevel ELSE level

PatchElement(group1, sf, id, level, element) ==
    IF ~Matches1(group1, sf, id, level, element) /\ Matches2(group1, sf, id, level, element)
    THEN Fp2NewElement
    ELSE element

\* Line 236: row[column].strip("\n").split("\n")
SplitCell(s) == Split(Strip(s, NL), NL)

\* RepeatElement, had it padded the list with copies of its last element.
RECURSIVE PadWithLast(_, _)
PadWithLast(l, n) == IF Len(l) >= n \/ Len(l) = 0 THEN l ELSE PadWithLast(Append(l, l[Len(l)]), n)

RepeatElementPadsLast(levels, elements) == PadWithLast(elements, Len(levels))

\* Lines 239-241: the Element list once repeated.
RepeatElement(levels, elements) ==
    IF Len(levels) > Len(elements) THEN ListTimes(elements, Len(levels)) ELSE elements

\* del l[i], for a position p = i + 1.
Remove(l, p) == SubSeq(l, 1, p - 1) \o SubSeq(l, p + 1, Len(l))

\* RemoveBLevels without line 249: the Element list is left as it is.
RECURSIVE RemoveBLevelsOnly(_, _, _)
RemoveBLevelsOnly(levels, elements, p) ==
    IF p > Len(levels) \/ p > Len(elements)
    THEN [levels |-> levels, elements |-> elements]
    ELSE IF StartsWithB(levels[p])
         THEN RemoveBLevelsOnly(Remove(levels, p), elements, p + 1)
         ELSE RemoveBLevelsOnly(levels, elements, p + 1)

\* Lines 246-249: the loop over enumerate(zip(row['Level'], row['Element']))
\* that deletes from the two lists it is iterating over.  p is the position
\* of the two list iterators, and i = p - 1 the count of enumerate; both
\* advance by one at each turn, whether or not the turn deleted.
RECURSIVE RemoveBLevels(_, _, _)
RemoveBLevels(levels, elements, p) ==
    IF p > Len(levels) \/ p > Len(elements)
    THEN [levels |-> levels, elements |-> elements]
    ELSE IF StartsWithB(levels[p])
         THEN RemoveBLevels(Remove(levels, p), Remove(elements, p), p + 1)
         ELSE RemoveBLevels(levels, elements, p + 1)

\* One line written by click.echo or click.secho, with the row it is about.
Message(kind, sheetNo, row, group1, text, levels, elements) ==
    [kind |-> kind, sheetNo |-> sheetNo, idx |-> row.idx,
     eforms |-> group1, sf |-> row.sfNotice, ID |-> row.ID,
     text |-> text, levels |-> levels, elements |-> elements]

\* Lines 192-249 for one row: the row as left in the frame, the lines
\* written, and the values the body went through.
LoopBody(row, sheetNo, group1) ==
    LET e0 == row.Element.str
        l0 == row.Level.str
        e1 == ReplaceDoubleNewline(e0)
        e2 == CleanElement(e0)
        level == PatchLevel(group1, row.sfNotice, row.ID, l0, e2)
        element == PatchElement(group1, row.sfNotice, row.ID, l0, e2)
        removed == IF SearchSoftBreak(e1)
                   THEN <<Message("removed", sheetNo, row, group1, e1, <<>>, <<>>)>>
                   ELSE <<>>
        multi == Contains(level, NL)
        levels == SplitCell(level)
        elements == SplitCell(element)
        repeated == RepeatElement(levels, elements)
        kept == RemoveBLevels(levels, repeated, 1)
        unexpected == IF ~multi /\ Contains(element, NL)
                      THEN <<Message("unexpected", sheetNo, row, group1, element, <<>>, <<>>)>>
                      ELSE <<>>
        differs == IF multi /\ Len(levels) # Len(repeated)
                   THEN <<Message("size differs", sheetNo, row, group1, <<>>, levels, repeated)>>
                   ELSE <<>>
    IN  [row |-> IF multi
                 THEN [row EXCEPT !.Level = ListCell(kept.levels),
                                  !.Element = ListCell(kept.elements)]
                 ELSE [row EXCEPT !.Level = StrCell(level),
                                  !.Element = StrCell(element)],
         echo |-> removed \o unexpected \o differs,
         trace |-> [idx |-> row.idx, cleaned |-> e2, level |-> level, element |-> element,
                    multi |-> multi,
                    levels |-> IF multi THEN levels ELSE <<>>,
                    split |-> IF multi THEN elements ELSE <<>>,
                    repeated |-> IF multi THEN repeated ELSE <<>>]]

----------------------------------------------------------------------------
(* DataFrame.explode, lines 252 and 256. *)

\* The element count explode compares between the columns.  pandas 1.3 and
\* 1.4 count an empty list as 0 and a scalar as -1 (legacy); later versions
\* count both as 1.
mylen(cell, legacy) ==
    IF cell.list /\ Len(cell.items) > 0 THEN Len(cell.items)
    ELSE IF legacy THEN (IF cell.list THEN 0 ELSE -1)
    ELSE 1

\* CountsDiffer, had explode paired the columns up to the shorter one.
CountsNeverDiffer(frame, legacy) == FALSE

\* ValueError: columns must have matching element counts.
CountsDiffer(frame, legacy) ==
    \E j \in 1..Len(frame) : mylen(frame[j].Level, legacy) # mylen(frame[j].Element, legacy)

\* ExplodeCell, had explode split a string at its newlines.
ExplodeCellSplitsStrings(cell) ==
    IF cell.list THEN (IF Len(cell.items) = 0 THEN <<NaN>> ELSE cell.items)
    ELSE Split(cell.str, NL)

\* Series.explode of one cell: its items, NaN for an empty list, the scalar.
ExplodeCell(cell) ==
    IF cell.list THEN (IF Len(cell.items) = 0 THEN <<NaN>> ELSE cell.items)
    ELSE <<cell.str>>

\* ExplodeRow, had the elements been paired with the levels from the end of
\* their list.
ExplodeRowReversed(row) ==
    LET ls == ExplodeCell(row.Level)
        es == ExplodeCell(row.Element)
    IN  [k \in 1..Len(ls) |->
            [idx |-> row.idx, ID |-> row.ID, Name |-> row.Name,
             Level |-> ls[k], Element |-> es[Len(ls) + 1 - k],
             eformsNotice |-> row.eformsNotice, sfNotice |-> row.sfNotice]]

\* Line 252 for one row: a row for each (Level, Element) pair, the other
\* columns and the index label repeated.
ExplodeRow(row) ==
    LET ls == ExplodeCell(row.Level)
        es == ExplodeCell(row.Element)
    IN  [k \in 1..Len(ls) |->
            [idx |-> row.idx, ID |-> row.ID, Name |-> row.Name,
             Level |-> ls[k], Element |-> es[k],
             eformsNotice |-> row.eformsNotice, sfNotice |-> row.sfNotice]]

\* ExplodeLevels, had the rows of the frame been taken from the last to the
\* first.
ExplodeLevelsBackwards(frame) ==
    Concat([j \in 1..Len(frame) |-> ExplodeRow(frame[Len(frame) + 1 - j])])

\* Line 252: df.explode(['Level', 'Element'])
ExplodeLevels(frame) == Concat([j \in 1..Len(frame) |-> ExplodeRow(frame[j])])

\* ExplodeNotice, had the row kept only the first notice of its list.
ExplodeNoticeFirstOnly(pl) ==
    <<[pl EXCEPT !.eformsNotice = IF Len(pl.eformsNotice) = 0 THEN NaN ELSE pl.eformsNotice[1]]>>

\* Line 256 for one row: a row for each notice of eformsNotice.
ExplodeNotice(pl) ==
    IF Len(pl.eformsNotice) = 0
    THEN <<[pl EXCEPT !.eformsNotice = NaN]>>
    ELSE [k \in 1..Len(pl.eformsNotice) |-> [pl EXCEPT !.eformsNotice = pl.eformsNotice[k]]]

\* Line 256: df.explode('eformsNotice')
ExplodeNotices(frame) == Concat([j \in 1..Len(frame) |-> ExplodeNotice(frame[j])])

----------------------------------------------------------------------------
(* The run of extract_indices_mapping. *)

VARIABLES
    corpus,      \* the sheets of the archive, in discovery order
    sheetNo,     \* the position of the loops of lines 145-146
    pc,          \* "sheets", "rows", "explode", "done" or "failed"
    sheet,       \* the name of the sheet being processed
    eforms_notice_number,  \* match.group(1)
    df,          \* the frame of the sheet, as the row loop leaves it
    dfNo,        \* the position in the archive of the sheet df was read from
    rowNo,       \* the position of the loop of line 191
    placements,  \* the frame after line 252
    dfs,         \* the frames appended at line 258
    echo,        \* the lines written by click.echo and click.secho
    error,       \* the exception that ended the run
    csv,         \* bt-indices-mapping.csv
    norm,        \* the frame of the sheet as the row loop found it
    trace,       \* the values each row went through in the loop body
    annex,       \* the rows that annex_rows yields, in order
    hpc,         \* extract_hierarchy: "idle", "rows", "done" or "failed"
    hrow,        \* the position of the loop of line 276
    line,        \* the line of the tree: the identifiers down to the last row
    previous_level,
    data,        \* the records appended at line 286
    herror,      \* the exception that ended extract_hierarchy
    hcsv         \* bt-bg-hierarchy.csv

\* The state of extract_indices_mapping and that of extract_hierarchy.
mvars == <<corpus, sheetNo, pc, sheet, eforms_notice_number, df, dfNo, rowNo, placements,
           dfs, echo, error, csv, norm, trace>>
hvars == <<annex, hpc, hrow, line, previous_level, data, herror, hcsv>>

vars == <<corpus, sheetNo, pc, sheet, eforms_notice_number, df, dfNo, rowNo, placements,
          dfs, echo, error, csv, norm, trace,
          annex, hpc, hrow, line, previous_level, data, herror, hcsv>>

NoError == [kind |-> "none", sheet |-> <<>>, legacy |-> FALSE]
NotWritten == [written |-> FALSE, rows |-> <<>>]

\* extract_hierarchy is not running.
HierarchyIdle ==
    /\ annex = <<>>
    /\ hpc = "idle"
    /\ hrow = 1
    /\ line = <<>>
    /\ previous_level = 0
    /\ data = <<>>
    /\ herror = "none"
    /\ hcsv = NotWritten

Init ==
    /\ HierarchyIdle
    /\ corpus \in Corpora
    /\ sheetNo = 1
    /\ pc = "sheets"
    /\ sheet = <<>>
    /\ eforms_notice_number = <<>>
    /\ df = <<>>
    /\ dfNo = 0
    /\ rowNo = 1
    /\ placements = <<>>
    /\ dfs = <<>>
    /\ echo = <<>>
    /\ error = NoError
    /\ csv = NotWritten
    /\ norm = <<>>
    /\ trace = <<>>

\* Lines 147-148: an ignored sheet is skipped.
SkipSheet ==
    /\ pc = "sheets"
    /\ sheetNo <= Len(corpus)
    /\ IsIgnored(corpus[sheetNo].name)
    /\ sheetNo' = sheetNo + 1
    /\ UNCHANGED hvars
    /\ UNCHANGED <<corpus, pc, sheet, eforms_notice_number, df, dfNo, rowNo, placements,
                   dfs, echo, error, csv, norm, trace>>

\* RejectSheet, had the unmatched sheet been skipped like an ignored one.
RejectSheetSkips ==
    /\ pc = "sheets"
    /\ sheetNo <= Len(corpus)
    /\ ~IsIgnored(corpus[sheetNo].name)
    /\ ~keep_sheet_regex(corpus[sheetNo].name).ok
    /\ sheetNo' = sheetNo + 1
    /\ UNCHANGED hvars
    /\ UNCHANGED <<corpus, pc, sheet, eforms_notice_number, df, dfNo, rowNo, placements,
                   dfs, echo, error, csv, norm, trace>>

\* Lines 150-152: a name that matches no pattern ends the run.
RejectSheet ==
    /\ pc = "sheets"
    /\ sheetNo <= Len(corpus)
    /\ ~IsIgnored(corpus[sheetNo].name)
    /\ ~keep_sheet_regex(corpus[sheetNo].name).ok
    /\ pc' = "failed"
    /\ error' = [kind |-> "no known pattern", sheet |-> corpus[sheetNo].name,
                 legacy |-> FALSE]
    /\ UNCHANGED hvars
    /\ UNCHANGED <<corpus, sheetNo, sheet, eforms_notice_number, df, dfNo, rowNo, placements,
                   dfs, echo, csv, norm, trace>>

Accepted ==
    /\ pc = "sheets"
    /\ sheetNo <= Len(corpus)
    /\ ~IsIgnored(corpus[sheetNo].name)
    /\ keep_sheet_regex(corpus[sheetNo].name).ok

\* Lines 150-174, when column 0 has a value in a row that line 168 kept.
FirstColumnError ==
    /\ Accepted
    /\ ~EmptyColumnIsNa(corpus[sheetNo].rows)
    /\ pc' = "failed"
    /\ sheet' = corpus[sheetNo].name
    /\ eforms_notice_number' = keep_sheet_regex(corpus[sheetNo].name).group1
    /\ error' = [kind |-> "first column", sheet |-> corpus[sheetNo].name, legacy |-> FALSE]
    /\ UNCHANGED hvars
    /\ UNCHANGED <<corpus, sheetNo, df, dfNo, rowNo, placements, dfs, echo, csv, norm, trace>>

\* Lines 150-187: the sheet is read and its frame normalized.
ReadSheet ==
    /\ Accepted
    /\ EmptyColumnIsNa(corpus[sheetNo].rows)
    /\ LET n == corpus[sheetNo].name
           frame == Normalize(corpus[sheetNo].rows, keep_sheet_regex(n).group1,
                              SfNoticeNumber(n))
       IN  /\ sheet' = n
           /\ eforms_notice_number' = keep_sheet_regex(n).group1
           /\ df' = frame
           /\ dfNo' = sheetNo
           /\ norm' = frame
           /\ pc' = IF Len(frame) = 0 THEN "explode" ELSE "rows"
    /\ rowNo' = 1
    /\ trace' = <<>>
    /\ placements' = <<>>
    /\ UNCHANGED hvars
    /\ UNCHANGED <<corpus, sheetNo, dfs, echo, error, csv>>

\* Lines 191-249: one turn of the loop over the rows.
ProcessRow ==
    /\ pc = "rows"
    /\ LET r == LoopBody(df[rowNo], sheetNo, eforms_notice_number)
       IN  /\ df' = [df EXCEPT ![rowNo] = r.row]
           /\ echo' = echo \o r.echo
           /\ trace' = Append(trace, r.trace)
    /\ rowNo' = rowNo + 1
    /\ pc' = IF rowNo = Len(df) THEN "explode" ELSE "rows"
    /\ UNCHANGED hvars
    /\ UNCHANGED <<corpus, sheetNo, sheet, eforms_notice_number, dfNo, placements, dfs,
                   error, csv, norm>>

\* Lines 251-258: the frame is exploded and appended, or the run ends on the
\* ValueError of explode.  Either count of explode may be the installed one.
ExplodeSheet ==
    /\ pc = "explode"
    /\ \E legacy \in BOOLEAN :
        IF CountsDiffer(df, legacy)
        THEN /\ pc' = "failed"
             /\ error' = [kind |-> "matching element counts", sheet |-> sheet,
                          legacy |-> legacy]
             /\ UNCHANGED <<sheetNo, placements, dfs>>
        ELSE /\ placements' = ExplodeLevels(df)
             /\ dfs' = Append(dfs, ExplodeNotices(ExplodeLevels(df)))
             /\ sheetNo' = sheetNo + 1
             /\ pc' = "sheets"
             /\ UNCHANGED error
    /\ UNCHANGED hvars
    /\ UNCHANGED <<corpus, sheet, eforms_notice_number, df, dfNo, rowNo, echo, csv, norm, trace>>

\* Line 260: the frames are concatenated and written; pd.concat of no frame
\* raises ValueError.
WriteOutput ==
    /\ pc = "sheets"
    /\ sheetNo > Len(corpus)
    /\ IF Len(dfs) = 0
       THEN /\ pc' = "failed"
            /\ error' = [kind |-> "no objects to concatenate", sheet |-> <<>>,
                         legacy |-> FALSE]
            /\ UNCHANGED csv
       ELSE /\ pc' = "done"
            /\ csv' = [written |-> TRUE, rows |-> Concat(dfs)]
            /\ UNCHANGED error
    /\ UNCHANGED hvars
    /\ UNCHANGED <<corpus, sheetNo, sheet, eforms_notice_number, df, dfNo, rowNo, placements,
                   dfs, echo, norm, trace>>

Next ==
    \/ SkipSheet
    \/ RejectSheet
    \/ FirstColumnError
    \/ ReadSheet
    \/ ProcessRow
    \/ ExplodeSheet
    \/ WriteOutput

Spec == Init /\ [][Next]_vars

----------------------------------------------------------------------------
(* extract_hierarchy, lines 264-292. *)

\* What line.append(None) appends, and what DataFrame fills a short record
\* with.
None == <<>>

\* row['ID'] of the j-th row that annex_rows yields: an identifier told
\* from those of the other rows.
Identifier(j) == <<"ID", j>>

\* row['Level'] of a row at depth d: its length is the depth.
Plus(d) == [i \in 1..d |-> "+"]

\* The Level cells of the annex: a missing value, or a depth.
AnnexLevels == {NaN} \cup {Plus(d) : d \in 1..MaxDepth}

\* The sequences of rows annex_rows may yield: the rows of the sheet that
\* have an ID.
Annexes ==
    UNION {{[j \in 1..n |-> [ID |-> Identifier(j), Level |-> f[j]]] :
                f \in [1..n -> AnnexLevels]} : n \in 0..MaxAnnexRows}

\* The columns of the frame of line 289.
Columns == <<"BT", "BG_lvl1", "BG_lvl2", "BG_lvl3">>

\* extract_indices_mapping is not running.
MappingIdle ==
    /\ corpus = <<>>
    /\ sheetNo = 1
    /\ pc = "idle"
    /\ sheet = <<>>
    /\ eforms_notice_number = <<>>
    /\ df = <<>>
    /\ dfNo = 0
    /\ rowNo = 1
    /\ placements = <<>>
    /\ dfs = <<>>
    /\ echo = <<>>
    /\ error = NoError
    /\ csv = NotWritten
    /\ norm = <<>>
    /\ trace = <<>>

\* Lines 272-274.
InitHierarchy ==
    /\ MappingIdle
    /\ annex \in Annexes
    /\ hpc = "rows"
    /\ hrow = 1
    /\ line = <<>>
    /\ previous_level = 0
    /\ data = <<>>
    /\ herror = "none"
    /\ hcsv = NotWritten

\* line[:n]
Slice(l, n) == SubSeq(l, 1, IF n < Len(l) THEN n ELSE Len(l))

\* AdjustLine, had the line kept its length when the level decreases.
AdjustLineKeepsLength(l, current_level, previous) ==
    IF current_level > previous THEN Append(l, None) ELSE l

\* Lines 279-283: the size of the line is adjusted.
AdjustLine(l, current_level, previous) ==
    IF current_level > previous THEN Append(l, None)
    ELSE IF current_level < previous THEN Slice(l, current_level)
    ELSE l

\* Line 284: line[-1] = identifier, of a line that is not empty.
SetHead(l, identifier) == [l EXCEPT ![Len(l)] = identifier]

\* Line 286: [identifier, *line[:-1]]
Record(identifier, l) == <<identifier>> \o SubSeq(l, 1, Len(l) - 1)

\* Lines 276-287: one turn of the loop over the rows of the annex.  len() of
\* a missing Level raises TypeError.  A Level that is not missing has a
\* character, so that the line is not empty at line 284.
HierarchyRow ==
    /\ hpc = "rows"
    /\ hrow <= Len(annex)
    /\ LET row == annex[hrow]
           identifier == row.ID
       IN  IF row.Level = NaN
           THEN /\ hpc' = "failed"
                /\ herror' = "TypeError"
                /\ UNCHANGED <<hrow, line, previous_level, data>>
           ELSE LET current_level == Len(row.Level)
                    adjusted == AdjustLine(line, current_level, previous_level)
                IN  /\ line' = SetHead(adjusted, identifier)
                    /\ data' = Append(data, Record(identifier, SetHead(adjusted, identifier)))
                    /\ previous_level' = current_level
                    /\ hrow' = hrow + 1
                    /\ UNCHANGED <<hpc, herror>>
    /\ UNCHANGED <<annex, hcsv>>
    /\ UNCHANGED mvars

\* The longest of the records.
RECURSIVE Widest(_)
Widest(d) ==
    IF Len(d) = 0 THEN 0
    ELSE LET w == Widest(SubSeq(d, 1, Len(d) - 1))
         IN  IF Len(d[Len(d)]) > w THEN Len(d[Len(d)]) ELSE w

\* The record as a row of the frame: the columns it lacks are None.
FrameRow(record) == [c \in 1..Len(Columns) |-> IF c <= Len(record) THEN record[c] ELSE None]

\* Lines 289-291: the frame is made and written.  DataFrame raises
\* ValueError when the longest record has not as many values as there are
\* columns.
WriteHierarchy ==
    /\ hpc = "rows"
    /\ hrow > Len(annex)
    /\ IF Len(data) > 0 /\ Widest(data) # Len(Columns)
       THEN /\ hpc' = "failed"
            /\ herror' = "ValueError"
            /\ UNCHANGED hcsv
       ELSE /\ hpc' = "done"
            /\ hcsv' = [written |-> TRUE, rows |-> [i \in 1..Len(data) |-> FrameRow(data[i])]]
            /\ UNCHANGED herror
    /\ UNCHANGED <<annex, hrow, line, previous_level, data>>
    /\ UNCHANGED mvars

NextHierarchy ==
    \/ HierarchyRow
    \/ WriteHierarchy

SpecHierarchy == InitHierarchy /\ [][NextHierarchy]_vars

----------------------------------------------------------------------------
(* Vocabulary of the properties. *)

\* The frame of the last sheet read has been exploded (line 252 returned):
\* placements holds the rows made from the rows of df.
Exploded ==
    /\ dfNo > 0
    /\ pc \in {"sheets", "done", "failed"}
    /\ error.kind # "matching element counts"

\* The run ended on the ValueError of explode.
ExplodeFailed == pc = "failed" /\ error.kind = "matching element counts"

\* The placements made from the row of index label i, in order.
PlacementsOf(i) == LET FromRow(pl) == pl.idx = i IN SelectSeq(placements, FromRow)

\* The lines of one kind written about the row of label i of sheet k.
MessagesOf(kind, k, i) ==
    LET About(m) == m.kind = kind /\ m.sheetNo = k /\ m.idx = i IN SelectSeq(echo, About)

\* How many of the sub-levels do not begin with B.
NonBCount(levels) == Cardinality({k \in 1..Len(levels) : ~StartsWithB(levels[k])})

\* The Level sub-values of a row once corrected: those of the split, or the
\* one Level of a row that is not split.
SubLevels(tr) == IF tr.multi THEN tr.levels ELSE <<tr.level>>

\* The row of the loop went through these values and its counts differ
\* after the repeat of lines 239-241.
SizeDiffers(tr) == tr.multi /\ Len(tr.levels) # Len(tr.repeated)

----------------------------------------------------------------------------
(* C1.  Filtering law: no placement emitted for any row of an accepted     *)
(* sheet has a Level that begins with B, whether the row took the          *)
(* single-placement path or was split.                                     *)
C1_NoBLevelEmitted ==
    Exploded => \A k \in 1..Len(placements) : ~StartsWithB(placements[k].Level)

(* C2.  As claimed: a count mismatch that remains after the repeat is not  *)
(* fatal; the run does not end on it.                                      *)
C2_MismatchNotFatal ==
    \A j \in 1..Len(trace) : SizeDiffers(trace[j]) => ~ExplodeFailed

(* C2, amended.  A count mismatch that remains after the repeat is         *)
(* reported by exactly one 'size differs' line and, whenever a Level       *)
(* sub-value of the row is left after the removal of B levels, it is       *)
(* fatal: the rows of the sheet are looped over, then the run ends on the  *)
(* error of explode, which names the sheet; no placement is made by        *)
(* pairing up to the shorter list, no later sheet is read and no output    *)
(* is written.                                                             *)
C2_MismatchIsFatal ==
    \A j \in 1..Len(trace) :
        SizeDiffers(trace[j]) =>
            /\ Len(MessagesOf("size differs", dfNo, trace[j].idx)) = 1
            /\ Len(df[j].Level.items) > 0 =>
                /\ sheetNo = dfNo
                /\ placements = <<>>
                /\ ~csv.written
                /\ \/ pc \in {"rows", "explode"}
                   \/ ExplodeFailed /\ error.sheet = corpus[dfNo].name

C2_Witness ==
    /\ ExplodeFailed
    /\ Len(corpus) > dfNo
    /\ Len(df) > 1
    /\ Len(trace) = Len(df)
    /\ SizeDiffers(trace[1])
    /\ Len(df[1].Level.items) > 0

(* C3.  As claimed: when the split Element has m elements and the split    *)
(* Level n, 1 <= m < n, the adjusted Element is the m elements followed    *)
(* by n - m copies of the last one.                                        *)
C3_LastElementRepeated ==
    \A j \in 1..Len(trace) :
        LET tr == trace[j]
            m == Len(tr.split)
            n == Len(tr.levels)
        IN  (tr.multi /\ 1 <= m /\ m < n) =>
                /\ Len(tr.repeated) = n
                /\ \A k \in 1..n : tr.repeated[k] = tr.split[IF k <= m THEN k ELSE m]

(* C3, amended.  When the split Element has one element and the split      *)
(* Level n > 1, the adjusted Element is n copies of that element and no    *)
(* 'size differs' line follows; when it has m elements, 1 < m < n, the     *)
(* adjusted Element is the whole list n times over (m * n elements) and a  *)
(* 'size differs' line follows; when m >= n it is left unchanged.          *)
C3_WholeListRepeated ==
    \A j \in 1..Len(trace) :
        LET tr == trace[j]
            m == Len(tr.split)
            n == Len(tr.levels)
            differs == Len(MessagesOf("size differs", dfNo, tr.idx))
        IN  tr.multi =>
                /\ m >= 1
                /\ (m = 1 /\ n > 1) =>
                      /\ Len(tr.repeated) = n
                      /\ \A k \in 1..n : tr.repeated[k] = tr.split[1]
                      /\ differs = 0
                /\ (1 < m /\ m < n) =>
                      /\ Len(tr.repeated) = m * n
                      /\ \A k \in 1..(m * n) : tr.repeated[k] = tr.split[((k - 1) % m) + 1]
                      /\ differs = 1
                /\ m >= n => tr.repeated = tr.split

C3_Witness ==
    \E j \in 1..Len(trace) :
        /\ trace[j].multi
        /\ Len(trace[j].split) = 2
        /\ Len(trace[j].levels) = 3
        /\ Len(trace[j].repeated) = 6

(* C4.  Placement count: the number of placements made from a row equals   *)
(* the number of its Level sub-values that do not begin with B; a row all  *)
(* of whose sub-levels begin with B makes none.                            *)
C4_PlacementCount ==
    Exploded =>
        \A j \in 1..Len(trace) :
            Len(PlacementsOf(trace[j].idx)) = NonBCount(SubLevels(trace[j]))

(* C5.  Reject is fatal for the whole run: when the first sheet whose name *)
(* is neither ignored nor of the keep pattern is reached, the run ends on  *)
(* an error that carries that very name; no sheet after it is looked at    *)
(* and no output is written, however many sheets were processed before.    *)
C5_RejectIsFatal ==
    \A k \in 1..Len(corpus) :
        (/\ corpus[k].name = SheetRandom
         /\ \A i \in 1..(k - 1) : corpus[i].name # SheetRandom) =>
            /\ sheetNo <= k
            /\ ~csv.written
            /\ pc # "done"
            /\ (pc = "failed" /\ sheetNo = k /\ dfNo < k) =>
                  error.kind = "no known pattern" /\ error.sheet = SheetRandom
            /\ (sheetNo = k /\ pc = "sheets") => ~ENABLED (SkipSheet \/ ReadSheet \/ WriteOutput)

C5_Witness ==
    /\ pc = "failed"
    /\ error.kind = "no known pattern"
    /\ error.sheet = SheetRandom
    /\ Len(dfs) > 0
    /\ Len(dfs[1]) > 0
    /\ ~csv.written

\* The sheet at position k of the archive has been read into a frame and
\* the run went on to its rows.
ReadOn(k) ==
    /\ ~IsIgnored(corpus[k].name)
    /\ \/ k < sheetNo
       \/ k = sheetNo /\ dfNo = k /\ (pc \in {"rows", "explode"} \/ ExplodeFailed)

(* C6.  As claimed: a sheet whose column 0 has a value in any data row,    *)
(* the rows without Level included, ends the run.                          *)
C6_AnyRowChecked ==
    \A k \in 1..Len(corpus) :
        ReadOn(k) => \A i \in 1..Len(corpus[k].rows) : corpus[k].rows[i].Empty = NaNAtom

(* C6, amended.  Empty-column check: an accepted sheet ends the run with   *)
(* the 'first column' error exactly when column 0 has a value in a data    *)
(* row whose Level is not empty; the rows without Level are removed before *)
(* the check and their column 0 is not looked at.  Otherwise the column is *)
(* dropped and the rows are processed.                                     *)
C6_KeptRowsChecked ==
    /\ \A k \in 1..Len(corpus) :
          ReadOn(k) =>
              \A i \in 1..Len(corpus[k].rows) :
                  corpus[k].rows[i].Level # NaN => corpus[k].rows[i].Empty = NaNAtom
    /\ (pc = "failed" /\ error.kind = "first column") =>
          /\ error.sheet = corpus[sheetNo].name
          /\ ~csv.written
          /\ \E i \in 1..Len(corpus[sheetNo].rows) :
                /\ corpus[sheetNo].rows[i].Level # NaN
                /\ corpus[sheetNo].rows[i].Empty # NaNAtom

C6_Witness ==
    /\ pc = "done"
    /\ csv.written
    /\ \E i \in 1..Len(corpus[dfNo].rows) :
          /\ corpus[dfNo].rows[i].Level = NaN
          /\ corpus[dfNo].rows[i].Empty # NaNAtom
    /\ Len(placements) > 0

(* C7.  As claimed: every row that survives normalization has a non-empty  *)
(* Level and a non-empty ID.                                               *)
C7_LevelAndIdNonEmpty ==
    \A j \in 1..Len(norm) : norm[j].Level.str # <<>> /\ norm[j].ID # ""

(* C7, amended.  Normalization invariant: the rows that survive            *)
(* normalization are exactly the sheet rows whose Level is not empty, in   *)
(* sheet order, each with its Level; a row with an empty Level is dropped  *)
(* and never yields a placement; a row with an empty ID and a Level is     *)
(* kept, with the empty string as its ID.                                  *)
C7_LevelNonEmpty ==
    dfNo > 0 =>
        LET t == corpus[dfNo].rows
        IN  /\ {norm[j].idx : j \in 1..Len(norm)} = {i \in 1..Len(t) : t[i].Level # NaN}
            /\ \A j \in 1..Len(norm) :
                  /\ norm[j].Level.str = t[norm[j].idx].Level
                  /\ norm[j].Level.str # <<>>
                  /\ norm[j].ID = (IF t[norm[j].idx].ID = NaNAtom THEN "" ELSE t[norm[j].idx].ID)
                  /\ \A i \in 1..(j - 1) : norm[i].idx < norm[j].idx
            /\ \A k \in 1..Len(placements) : t[placements[k].idx].Level # NaN

C7_Witness ==
    /\ Exploded
    /\ dfNo > 0
    /\ \E i \in 1..Len(corpus[dfNo].rows) : corpus[dfNo].rows[i].Level = NaN
    /\ \E j \in 1..Len(norm) : norm[j].ID = "" /\ Len(PlacementsOf(norm[j].idx)) = 1

\* The placement that copies every column of a row of the frame, with one
\* Level and one Element.
PlacementFrom(row, level, element) ==
    [idx |-> row.idx, ID |-> row.ID, Name |-> row.Name, Level |-> level,
     Element |-> element, eformsNotice |-> row.eformsNotice, sfNotice |-> row.sfNotice]

\* All the lines written about the row of label i of sheet k.
AllMessagesOf(k, i) ==
    LET About(m) == m.sheetNo = k /\ m.idx = i IN SelectSeq(echo, About)

(* C8.  A normalized row whose Level and Element hold no newline: once the *)
(* sheet is exploded, exactly one placement is made from it, equal to the  *)
(* row in every column, Level and Element included, and no line is         *)
(* written about it.                                                       *)
C8_PlainRowCopied ==
    Exploded =>
        \A j \in 1..Len(norm) :
            (~Contains(norm[j].Level.str, NL) /\ ~Contains(norm[j].Element.str, NL)) =>
                /\ PlacementsOf(norm[j].idx)
                      = <<PlacementFrom(norm[j], norm[j].Level.str, norm[j].Element.str)>>
                /\ AllMessagesOf(dfNo, norm[j].idx) = <<>>

C8_Witness ==
    /\ Exploded
    /\ \E j \in 1..Len(norm) :
          /\ norm[j].Level.str = Fp1Level
          /\ norm[j].ID = "BT-18"
          /\ norm[j].sfNotice = <<"7">>
          /\ norm[j].Element.str = <<"x">>
          /\ Len(PlacementsOf(norm[j].idx)) = 1

(* C9.  Single-level anomaly: a row whose Level holds no newline and whose *)
(* Element still holds one after the cleanup and the corrections gets      *)
(* exactly one 'unexpected newline' line; explode does not fail on it, and *)
(* exactly one placement is made from it, whose Element is the row's       *)
(* Element with its newlines.                                              *)
C9_SingleLevelAnomaly ==
    /\ \A j \in 1..Len(trace) :
          (~trace[j].multi /\ Contains(trace[j].element, NL)) =>
              /\ Len(MessagesOf("unexpected", dfNo, trace[j].idx)) = 1
              /\ MessagesOf("unexpected", dfNo, trace[j].idx)[1].text = trace[j].element
              /\ Exploded =>
                    /\ PlacementsOf(trace[j].idx)
                          = <<PlacementFrom(norm[j], trace[j].level, trace[j].element)>>
                    /\ Contains(PlacementsOf(trace[j].idx)[1].Element, NL)
    /\ ExplodeFailed => \E j \in 1..Len(trace) : trace[j].multi

C9_Witness ==
    /\ Exploded
    /\ \E j \in 1..Len(trace) :
          /\ ~trace[j].multi
          /\ trace[j].element = <<"x", NL, "x">>
          /\ Len(PlacementsOf(trace[j].idx)) = 1
          /\ Len(MessagesOf("unexpected", dfNo, trace[j].idx)) = 1

(* C10.  In-order pairing: a row whose Level splits into n >= 2 sub-values *)
(* none of which begins with B and whose Element splits into n lines gets  *)
(* no 'size differs' line and, once the sheet is exploded, n placements:   *)
(* the i-th has the i-th sub-level and the i-th Element line, and every    *)
(* other column as in the row.                                             *)
C10_InOrderPairing ==
    \A j \in 1..Len(trace) :
        LET tr == trace[j]
            n == Len(tr.levels)
        IN  (/\ tr.multi
             /\ n >= 2
             /\ NonBCount(tr.levels) = n
             /\ Len(tr.split) = n) =>
                /\ MessagesOf("size differs", dfNo, tr.idx) = <<>>
                /\ Exploded =>
                      PlacementsOf(tr.idx)
                          = [i \in 1..n |-> PlacementFrom(norm[j], tr.levels[i], tr.split[i])]

C10_Witness ==
    /\ Exploded
    /\ \E j \in 1..Len(trace) :
          /\ trace[j].multi
          /\ trace[j].levels = <<<<"I">>, <<"J">>>>
          /\ trace[j].split = <<<<"x">>, <<"y">>>>
          /\ Len(PlacementsOf(trace[j].idx)) = 2

----------------------------------------------------------------------------
\* The tokens of a name before its "vs" token, the space before it left out.
RECURSIVE BeforeVs(_)
BeforeVs(n) ==
    IF Len(n) = 0 \/ n[1] = "vs" THEN <<>>
    ELSE IF n[1] = SP /\ At(n, 2) = "vs" THEN <<>>
    ELSE <<n[1]>> \o BeforeVs(Drop(n, 1))

\* The notice list as written in a name of KeepNames: what stands between
\* the form kind and " vs".
WrittenList(n) ==
    LET head == BeforeVs(n) IN Drop(head, IF At(head, 2) = SP THEN 2 ELSE 1)

\* The old-form number as written in a name of KeepNames: its last two digits.
WrittenOld(n) ==
    LET m == RStrip(n, SP) IN SubSeq(m, Len(m) - 1, Len(m))

\* A number without its leading zeros, that is still a number.
IsBareNumber(x) == Len(x) > 0 /\ x[1] # "0" /\ \A i \in 1..Len(x) : IsDigit(x[i])

(* C11.  Classifier accept: a sheet whose name is not ignored and is of    *)
(* the keep pattern is accepted, never rejected; the notices attached to   *)
(* its rows are the numbers of its notice list in written order, each      *)
(* without leading zeros, and its old-form number without leading zeros;   *)
(* every such number is a non-empty digit string.                          *)
C11_ClassifierAccept ==
    /\ (pc = "failed" /\ error.kind = "no known pattern") =>
          error.sheet \notin KeepNames \cup {SheetMulti, Sheet15v7, Sheet18v17}
    /\ (dfNo > 0 /\ corpus[dfNo].name \in KeepNames \cup {SheetMulti}) =>
          \A j \in 1..Len(norm) :
              LET written == Split(WrittenList(corpus[dfNo].name), ",")
                  got == norm[j].eformsNotice
              IN  /\ Len(got) = Len(written)
                  /\ \A k \in 1..Len(got) :
                        /\ IsBareNumber(got[k])
                        /\ \E z \in 0..2 : written[k] = ListTimes(<<"0">>, z) \o got[k]
                  /\ IsBareNumber(norm[j].sfNotice)
                  /\ \E z \in 0..2 :
                        WrittenOld(corpus[dfNo].name) = ListTimes(<<"0">>, z) \o norm[j].sfNotice

\* The names of the input that are in the ignore set or of an ignore pattern.
IgnoredNames ==
    ignore_sheets
    \cup { <<"F", "0", "2", SP, "vs", SP, "eN", "1", "6">>,
           <<"F", "0", "2", SP, "vs", SP, "eN", "1", "6", SP, "(2)">>,
           <<"S", "F", "0", "2", SP, "vs", SP, "eForm", "1", "6", ",", "2", "9">>,
           <<"S", "F", "0", "2", SP, "vs", SP, "eForm", SP, "1", "6">> }

(* C12.  Ignore: a sheet whose name is in the ignore set or of an ignore   *)
(* pattern is skipped, also when its name is of the keep pattern           *)
(* ('eN40 vs F20'): it is never read into a frame, no frame is appended    *)
(* for it, no line is written about it and no error is raised at it.       *)
C12_IgnoredSheetSkipped ==
    /\ \A k \in 1..Len(corpus) :
          corpus[k].name \in IgnoredNames =>
              /\ dfNo # k
              /\ \A i \in 1..Len(echo) : echo[i].sheetNo # k
              /\ (pc = "failed" /\ sheetNo = k) => error.kind = "none"
              /\ (pc = "sheets" /\ sheetNo = k) =>
                    /\ ENABLED SkipSheet
                    /\ ~ENABLED (RejectSheet \/ ReadSheet \/ FirstColumnError)
    /\ Len(dfs) <= Cardinality({k \in 1..Len(corpus) :
                                   k < sheetNo /\ corpus[k].name \notin IgnoredNames})

C12_Witness ==
    /\ pc = "done"
    /\ csv.written
    /\ Len(corpus) = 2
    /\ corpus[1].name = SheetIgnoredKeep
    /\ Len(corpus[1].rows) = 1
    /\ Len(dfs) = 1
    /\ echo = <<>>

\* The number of notices of the placements before the i-th.
RECURSIVE NoticesBefore(_)
NoticesBefore(i) ==
    IF i <= 1 THEN 0 ELSE NoticesBefore(i - 1) + Len(placements[i - 1].eformsNotice)

(* C13.  Notice fan-out: in the frame appended for a sheet, the placement  *)
(* with k >= 1 notices has become k consecutive rows, one for each notice  *)
(* in list order, each with that one notice and every other column of the  *)
(* placement; the frame has as many rows as the placements have notices.   *)
C13_NoticeFanOut ==
    Exploded =>
        /\ Len(dfs) > 0
        /\ LET out == dfs[Len(dfs)]
           IN  /\ Len(out) = NoticesBefore(Len(placements) + 1)
               /\ \A i \in 1..Len(placements) :
                     /\ Len(placements[i].eformsNotice) >= 1
                     /\ \A k \in 1..Len(placements[i].eformsNotice) :
                           out[NoticesBefore(i) + k]
                               = [placements[i] EXCEPT
                                      !.eformsNotice = placements[i].eformsNotice[k]]

C13_Witness ==
    /\ Exploded
    /\ Len(placements) >= 2
    /\ Len(placements[1].eformsNotice) = 2
    /\ Len(dfs[Len(dfs)]) = 2 * Len(placements)

\* The positions <<row, sub-level, notice>> of the frame of the sheet, rows
\* first, then the sub-levels of a row, then the notices of the sheet.
OrderKeys ==
    Concat([j \in 1..Len(df) |->
        Concat([k \in 1..Len(ExplodeCell(df[j].Level)) |->
            [n \in 1..Len(df[j].eformsNotice) |-> <<j, k, n>>]])])

\* The frame appended for the sheet lists its rows in source row order,
\* within a row in sub-level order, within a placement in notice order.
FrameInOrder ==
    Exploded =>
        /\ Len(dfs) > 0
        /\ \A j \in 1..Len(df) :
              /\ df[j].idx = norm[j].idx
              /\ j > 1 => df[j - 1].idx < df[j].idx
        /\ LET out == dfs[Len(dfs)]
           IN  /\ Len(out) = Len(OrderKeys)
               /\ \A p \in 1..Len(out) :
                     LET j == OrderKeys[p][1]
                         k == OrderKeys[p][2]
                         n == OrderKeys[p][3]
                     IN  /\ out[p].idx = df[j].idx
                         /\ out[p].ID = df[j].ID
                         /\ out[p].Level = ExplodeCell(df[j].Level)[k]
                         /\ out[p].Element = ExplodeCell(df[j].Element)[k]
                         /\ out[p].eformsNotice = df[j].eformsNotice[n]

\* The file holds the frames one after the other, in the order appended.
FileInOrder == pc = "done" => csv.written /\ csv.rows = Concat(dfs)

\* A step appends at most one frame, after those appended before: the frame
\* of the sheet at the position of the loop, which then moves on; the loop
\* never moves back; the file is written once.
SheetByStep ==
    /\ sheetNo' >= sheetNo
    /\ dfs' # dfs =>
          /\ Len(dfs') = Len(dfs) + 1
          /\ SubSeq(dfs', 1, Len(dfs)) = dfs
          /\ dfNo = sheetNo
          /\ sheetNo' = sheetNo + 1
    /\ dfNo' # dfNo => dfNo' = sheetNo /\ dfNo < dfNo'
    /\ csv.written => csv' = csv

(* C14.  Deterministic output order: the output lists the rows sheet by    *)
(* sheet in discovery order, within a sheet in source row order, within a  *)
(* row in Level sub-value order and within a placement in notice-list      *)
(* order; every step of the run is fixed by the corpus up to that order.   *)
C14_OutputOrder == [](FrameInOrder /\ FileInOrder) /\ [][SheetByStep]_vars

C14_Witness ==
    /\ pc = "done"
    /\ Len(dfs) >= 2
    /\ Len(dfs[1]) >= 2
    /\ dfs[1][1].idx < dfs[1][Len(dfs[1])].idx
    /\ Len(dfs[2]) >= 1
    /\ Len(csv.rows) = Len(dfs[1]) + Len(dfs[2])

\* The count of lines of a text: one more than its newlines.
LineCount(s) == Cardinality({i \in 1..Len(s) : s[i] = NL}) + 1

\* The five components of the two entries, for the j-th row of the sheet
\* as normalized and its Element as cleaned.
Fingerprint1(j) ==
    /\ eforms_notice_number = <<"1", "5">>
    /\ norm[j].sfNotice = <<"7">>
    /\ norm[j].ID = "BT-18"
    /\ norm[j].Level.str = <<"I.3.4.1.1">>
    /\ LineCount(trace[j].cleaned) = 2

Fingerprint2(j) ==
    /\ eforms_notice_number = <<"1", "8">>
    /\ norm[j].sfNotice = <<"1", "7">>
    /\ norm[j].ID = "BT-750"
    /\ norm[j].Level.str = <<"III.2.1.1.1", NL, "III.2.2.2", NL, "III.2.2.3", NL,
                             "III.2.3.1.1", NL, "III.2.3.1.2">>
    /\ LineCount(trace[j].cleaned) = 2

(* C15.  Fingerprinted overrides: the corrections change the Level or the  *)
(* Element of a row only when all five components of one of the two        *)
(* entries match, the Element line count being taken after the newline     *)
(* cleanup; any other row keeps its Level and its cleaned Element, no      *)
(* error is raised, and the row goes on through the split decision.        *)
C15_FingerprintedOverrides ==
    \A j \in 1..Len(trace) :
        /\ trace[j].idx = norm[j].idx
        /\ (trace[j].level # norm[j].Level.str) =>
              Fingerprint1(j) /\ trace[j].level = Fp1NewLevel
        /\ (trace[j].element # trace[j].cleaned) =>
              Fingerprint2(j) /\ trace[j].element = Fp2NewElement
        /\ trace[j].level = norm[j].Level.str \/ trace[j].element = trace[j].cleaned
        /\ trace[j].multi = Contains(trace[j].level, NL)
        /\ rowNo > j
        /\ pc = "rows" => error.kind = "none"

C15_Witness ==
    /\ Len(trace) >= 1
    /\ \E j \in 1..Len(trace) :
          /\ Fingerprint2(j)
          /\ trace[j].element = Fp2NewElement
          /\ trace[j].cleaned # Fp2NewElement
          /\ trace[j].level = norm[j].Level.str

\* The text has two newlines in a row.
HasBlankLine(s) == \E i \in 1..Len(s) - 1 : s[i] = NL /\ s[i + 1] = NL

(* C16.  Doubled-newline collapse: after the newline cleanup of a row its  *)
(* Element has no two consecutive newlines.                                *)
C16_NoBlankLineAfterCleanup ==
    \A j \in 1..Len(trace) : ~HasBlankLine(trace[j].cleaned)

\* The list without its entries at the positions of R, the others in order.
RECURSIVE Without(_, _)
Without(l, R) ==
    IF Len(l) = 0 THEN <<>>
    ELSE Without(SubSeq(l, 1, Len(l) - 1), R)
             \o (IF Len(l) \in R THEN <<>> ELSE <<l[Len(l)]>>)

(* C17.  Paired removal: the sub-levels and the sub-elements a split row   *)
(* is left with are those it had before the removal, less the entries at   *)
(* one set of positions, the same in both lists, each of a sub-level that  *)
(* begins with B; the survivors keep their pairing and their order.        *)
C17_PairedRemoval ==
    \A j \in 1..Len(trace) :
        trace[j].multi =>
            /\ df[j].Level.list /\ df[j].Element.list
            /\ \E R \in SUBSET (1..Len(trace[j].levels)) :
                  /\ \A r \in R : StartsWithB(trace[j].levels[r])
                  /\ df[j].Level.items = Without(trace[j].levels, R)
                  /\ df[j].Element.items = Without(trace[j].repeated, R)

C17_Witness ==
    \E j \in 1..Len(trace) :
        /\ trace[j].multi
        /\ Len(trace[j].levels) = 2
        /\ trace[j].repeated = <<<<"(">>, <<"x">>>>
        /\ StartsWithB(trace[j].levels[1])
        /\ ~StartsWithB(trace[j].levels[2])
        /\ df[j].Level.items = <<trace[j].levels[2]>>
        /\ df[j].Element.items = <<<<"x">>>>

(* C18.  Every placement made from a normalized row, whose Level is not   *)
(* empty, has a Level that is neither the empty string nor missing.        *)
C18_LevelNeverEmpty ==
    Exploded =>
        \A i \in 1..Len(placements) :
            (\E j \in 1..Len(norm) :
                 norm[j].idx = placements[i].idx /\ Len(norm[j].Level.str) > 0)
            => placements[i].Level # <<>> /\ placements[i].Level # NaN

\* The depth of the i-th row of the annex.
Depth(i) == Len(annex[i].Level)

\* The first k rows of the annex have a Level, the first is at depth 1, and
\* no row is more than one deeper than the row before it.
WellNested(k) ==
    /\ k >= 1
    /\ \A i \in 1..k : annex[i].Level # NaN
    /\ Depth(1) = 1
    /\ \A i \in 2..k : Depth(i) <= Depth(i - 1) + 1

\* The last of the first i rows that is at depth d.
LastAt(i, d) ==
    CHOOSE h \in 1..i : Depth(h) = d /\ \A g \in (h + 1)..i : Depth(g) # d

\* The ancestors of the i-th row from the top down, then the row itself.
AncestorLine(i) == [d \in 1..Depth(i) |-> annex[LastAt(i, d)].ID]

(* C19.  Hierarchy stack invariant of extract_hierarchy: when the first    *)
(* row of the annex is at depth 1 and no row is more than one deeper than  *)
(* the row before it, then after each row the line has as many entries as  *)
(* the row's depth, the last is the row's identifier, the entry at an      *)
(* earlier position d is the identifier of the most recent row before it   *)
(* at depth d, and the record of the row is its identifier followed by     *)
(* those ancestors from the top down.                                      *)
C19_HierarchyStack ==
    (hpc # "idle" /\ WellNested(hrow - 1)) =>
        /\ Len(line) = Depth(hrow - 1)
        /\ line[Len(line)] = annex[hrow - 1].ID
        /\ \A d \in 1..(Len(line) - 1) :
              /\ LastAt(hrow - 1, d) < hrow - 1
              /\ line[d] = annex[LastAt(hrow - 1, d)].ID
        /\ previous_level = Depth(hrow - 1)
        /\ Len(data) = hrow - 1
        /\ \A i \in 1..(hrow - 1) :
              data[i] = <<annex[i].ID>> \o SubSeq(AncestorLine(i), 1, Depth(i) - 1)

C19_Witness ==
    /\ hrow = 5
    /\ Len(annex) = 4
    /\ WellNested(4)
    /\ Depth(2) = 2 /\ Depth(3) = 3 /\ Depth(4) = 2
    /\ line = <<Identifier(1), Identifier(4)>>
    /\ data[3] = <<Identifier(3), Identifier(1), Identifier(2)>>
    /\ data[4] = <<Identifier(4), Identifier(1)>>

====
